---- MODULE Spec2Model ----
(***************************************************************************)
(* The restaurant ordering backend of src/APIsapp: carts, orders, order    *)
(* lines, role groups, and the request handlers of views.py.  Every        *)
(* handler is a sequence of store accesses (ORM calls); each access is one *)
(* step.  The database runs in autocommit mode: no handler opens a         *)
(* transaction, so the steps of concurrent requests interleave and a       *)
(* worker may die between two steps.  Model.save() writes every column of  *)
(* the row from the handler's in-memory copy.                              *)
(***************************************************************************)
EXTENDS Integers, Sequences, FiniteSets, TLC

(* ------------------------------ bounds -------------------------------- *)
MaxOrders == 1
MaxCartLines == 2

Users == {1, 2, 3}
MenuItems == {1, 2}
Prices == {5, 10}
Quantities == {1, 2}
UnknownId == 9
None == 0
Procs == {1, 2}
Customers == {2, 3}

Manager == "Manager"
DeliveryCrew == "Delivery crew"
Admin == "Admin"

VARIABLES
  groups,    \* auth Group membership: user -> set of group names
  is_staff,  \* User.is_staff flag
  price,     \* MenuItem.price by menu item id
  cart,      \* Cart rows: id -> [user, menuitem, quantity]
  cartSeq,   \* last Cart id handed out
  orders,    \* Order rows, id = index: [user, delivery_crew, status, total]
  items,     \* OrderItem rows of each order, in insertion order
  pc,        \* position of each request worker in its handler
  req,       \* the request a worker is serving
  loc,       \* the handler's local variables
  resp,      \* the status of the worker's last response
  body       \* the ids listed in the worker's last response

vars == <<groups, is_staff, price, cart, cartSeq, orders, items, pc, req, loc, resp, body>>
storeVars == <<groups, is_staff, price, cart, cartSeq, orders, items>>

Store ==
  [groups |-> groups, is_staff |-> is_staff, price |-> price, cart |-> cart,
   cartSeq |-> cartSeq, orders |-> orders, items |-> items]

SetStore(db) ==
  /\ groups' = db.groups
  /\ is_staff' = db.is_staff
  /\ price' = db.price
  /\ cart' = db.cart
  /\ cartSeq' = db.cartSeq
  /\ orders' = db.orders
  /\ items' = db.items

(* ------------------------------ models.py ----------------------------- *)
\* Order(user=u): delivery_crew null, status False, total 0.
NewOrder(u) == [user |-> u, delivery_crew |-> None, status |-> FALSE, total |-> 0]

NoOrder == [user |-> None, delivery_crew |-> None, status |-> FALSE, total |-> 0]

NoCartRow == [user |-> None, menuitem |-> None, quantity |-> 0]

NoLocals == [order |-> None, rec |-> NoOrder, row |-> NoCartRow, lines |-> <<>>, total |-> 0]

NoRequest == [op |-> "none", user |-> None, pk |-> None, arg |-> None, qty |-> 0]

Request(op, u, pk, arg, qty) == [op |-> op, user |-> u, pk |-> pk, arg |-> arg, qty |-> qty]

Ret(db, lc, r) == [db |-> db, lc |-> lc, pc |-> "done", resp |-> r, body |-> <<>>]
Go(db, lc, at) == [db |-> db, lc |-> lc, pc |-> at, resp |-> "none", body |-> <<>>]

(* ---------------------------- permissions.py -------------------------- *)
InGroup(db, u, g) == g \in db.groups[u]
IsAdmin(db, u) == InGroup(db, u, Admin)
IsManager(db, u) == InGroup(db, u, Manager)
IsDeliveryCrew(db, u) == InGroup(db, u, DeliveryCrew)

(* ------------------------------ CartViewSet --------------------------- *)
\* Cart.objects.filter(user=u): the ids of u's rows.
CartOf(db, u) == {i \in DOMAIN db.cart : db.cart[i].user = u}

RECURSIVE SortedSeq(_)
SortedSeq(S) ==
  IF S = {} THEN <<>>
  ELSE LET m == CHOOSE x \in S : \A y \in S : x <= y
       IN <<m>> \o SortedSeq(S \ {m})

Restrict(f, S) == [x \in S |-> f[x]]

\* CartSerializer validation: menuitem_id must be a MenuItem; quantity is an
\* IntegerField built from PositiveIntegerField (min_value 0).
CartValid(db, rq) == rq.arg \in DOMAIN db.price /\ rq.qty >= 0

\* GET /cart/: the ids of get_queryset(), the caller's rows.
CartList(db, rq, lc) ==
  [Ret(db, lc, "OK") EXCEPT !.body = SortedSeq(CartOf(db, rq.user))]

\* POST /cart/: perform_create, serializer.save(user=request.user).
CartCreate(db, rq, lc) ==
  IF ~CartValid(db, rq) THEN Ret(db, lc, "BadRequest")
  ELSE LET id == db.cartSeq + 1
           row == [user |-> rq.user, menuitem |-> rq.arg, quantity |-> rq.qty]
       IN Ret([db EXCEPT !.cartSeq = id,
                         !.cart = [i \in DOMAIN db.cart \cup {id} |->
                                     IF i = id THEN row ELSE db.cart[i]]],
              lc, "Created")

\* instance.save() on a Cart row: UPDATE by primary key, INSERT when no row matched.
SaveCartRow(db, id, row) ==
  [db EXCEPT !.cart = [i \in DOMAIN db.cart \cup {id} |-> IF i = id THEN row ELSE db.cart[i]]]

\* PUT /cart/<pk>/: get_object() on the caller's own rows, then validation.
CartUpdateRead(db, rq, lc) ==
  IF rq.pk \notin CartOf(db, rq.user) THEN Ret(db, lc, "NotFound")
  ELSE IF ~CartValid(db, rq) THEN Ret(db, lc, "BadRequest")
  ELSE Go(db, [lc EXCEPT !.row = db.cart[rq.pk]], "cart_update_save")

\* serializer.save(): menuitem and quantity from the request, the rest from the copy.
CartUpdateSave(db, rq, lc) ==
  Ret(SaveCartRow(db, rq.pk, [lc.row EXCEPT !.menuitem = rq.arg, !.quantity = rq.qty]),
      lc, "OK")

\* DELETE /cart/<pk>/.
CartDestroyRead(db, rq, lc) ==
  IF rq.pk \notin CartOf(db, rq.user) THEN Ret(db, lc, "NotFound")
  ELSE Go(db, lc, "cart_destroy_delete")

CartDestroyDelete(db, rq, lc) ==
  Ret([db EXCEPT !.cart = Restrict(db.cart, DOMAIN db.cart \ {rq.pk})], lc, "NoContent")

\* (mutation) clear without the filter on the caller
CartClearAll(db, rq, lc) == Ret([db EXCEPT !.cart = <<>>], lc, "OK")

\* DELETE /cart/clear/.
CartClear(db, rq, lc) ==
  Ret([db EXCEPT !.cart = Restrict(db.cart, DOMAIN db.cart \ CartOf(db, rq.user))],
      lc, "OK")

(* ----------------------------- MenuItemViewSet ------------------------ *)
\* PUT /menu-item/<pk>/ by any authenticated user: the price is replaced.
MenuUpdate(db, rq, lc) ==
  IF rq.pk \notin DOMAIN db.price THEN Ret(db, lc, "NotFound")
  ELSE Ret([db EXCEPT !.price[rq.pk] = rq.arg], lc, "OK")

\* the lines of an order that are not of menu item m
RECURSIVE LinesWithout(_, _)
LinesWithout(lines, m) ==
  IF lines = <<>> THEN <<>>
  ELSE IF Head(lines).menuitem = m THEN LinesWithout(Tail(lines), m)
  ELSE <<Head(lines)>> \o LinesWithout(Tail(lines), m)

\* DELETE /menu-item/<pk>/ by any authenticated user: the cart rows and the
\* order lines of the item go with it (on_delete=CASCADE), orders stay.
MenuDestroy(db, rq, lc) ==
  IF rq.pk \notin DOMAIN db.price THEN Ret(db, lc, "NotFound")
  ELSE Ret([db EXCEPT
              !.price = Restrict(db.price, DOMAIN db.price \ {rq.pk}),
              !.cart = Restrict(db.cart,
                         {i \in DOMAIN db.cart : db.cart[i].menuitem # rq.pk}),
              !.items = [o \in DOMAIN db.items |-> LinesWithout(db.items[o], rq.pk)]],
           lc, "NoContent")

(* ------------------------------ OrderViewSet -------------------------- *)
\* get_queryset: the orders a user may address.
Visible(db, u, o) ==
  IF IsManager(db, u) \/ db.is_staff[u] THEN TRUE
  ELSE IF IsDeliveryCrew(db, u) THEN db.orders[o].delivery_crew = u
  ELSE db.orders[o].user = u

\* GET /orders/: the ids of get_queryset(), in primary-key order.
OrderList(db, rq, lc) ==
  [Ret(db, lc, "OK") EXCEPT
     !.body = SortedSeq({o \in 1..Len(db.orders) : Visible(db, rq.user, o)})]

\* order.save(): UPDATE of every column from the in-memory instance.
SaveOrder(db, o, rec) == [db EXCEPT !.orders[o] = rec]

\* (mutation) perform_create not binding the order to request.user
OrderCreateUnbound(db, rq, lc) ==
  Ret([db EXCEPT !.orders = Append(db.orders, NewOrder(None)),
                 !.items = Append(db.items, <<>>)],
      lc, "Created")

\* POST /orders/: perform_create; every serializer field is read-only.
OrderCreate(db, rq, lc) ==
  Ret([db EXCEPT !.orders = Append(db.orders, NewOrder(rq.user)),
                 !.items = Append(db.items, <<>>)],
      lc, "Created")

\* (mutation) the emptiness test of line 73 left out
CfcExistsUnchecked(db, rq, lc) == Go(db, lc, "cfc_create")

CfcExists(db, rq, lc) ==
  IF CartOf(db, rq.user) = {} THEN Ret(db, lc, "EmptyCart")
  ELSE Go(db, lc, "cfc_create")

CfcCreate(db, rq, lc) ==
  Go([db EXCEPT !.orders = Append(db.orders, NewOrder(rq.user)),
                !.items = Append(db.items, <<>>)],
     [lc EXCEPT !.order = Len(db.orders) + 1, !.rec = NewOrder(rq.user), !.total = 0],
     "cfc_iter")

\* for item in cart_items: the queryset is evaluated here, rows by id.
CfcIter(db, rq, lc) ==
  LET ids == SortedSeq(CartOf(db, rq.user))
      rows == [k \in 1..Len(ids) |-> db.cart[ids[k]]]
  IN Go(db, [lc EXCEPT !.lines = rows], IF rows = <<>> THEN "cfc_save" ELSE "cfc_item")

\* (mutation) line 86 adding the price without the quantity
CfcItemUnitPrice(db, rq, lc) ==
  LET row == Head(lc.lines)
      line == [menuitem |-> row.menuitem, quantity |-> row.quantity]
      rest == Tail(lc.lines)
  IN Go([db EXCEPT !.items[lc.order] = Append(@, line)],
        [lc EXCEPT !.lines = rest, !.total = @ + db.price[row.menuitem]],
        IF rest = <<>> THEN "cfc_save" ELSE "cfc_item")

\* One loop iteration: OrderItem.objects.create(...); total += price * quantity.
CfcItem(db, rq, lc) ==
  LET row == Head(lc.lines)
      line == [menuitem |-> row.menuitem, quantity |-> row.quantity]
      rest == Tail(lc.lines)
  IN Go([db EXCEPT !.items[lc.order] = Append(@, line)],
        [lc EXCEPT !.lines = rest,
                   !.total = @ + db.price[row.menuitem] * row.quantity],
        IF rest = <<>> THEN "cfc_save" ELSE "cfc_item")

\* order.total = total; order.save().
CfcSave(db, rq, lc) ==
  LET rec == [lc.rec EXCEPT !.total = lc.total]
  IN Go(SaveOrder(db, lc.order, rec), [lc EXCEPT !.rec = rec], "cfc_delete")

\* cart_items.delete(): a fresh DELETE ... WHERE user = u.
CfcDelete(db, rq, lc) ==
  Ret([db EXCEPT !.cart = Restrict(db.cart, DOMAIN db.cart \ CartOf(db, rq.user))],
      lc, "OrderCreated")

CreateFromCartStep(db, rq, lc, at) ==
  CASE at = "cfc_exists" -> CfcExists(db, rq, lc)
    [] at = "cfc_create" -> CfcCreate(db, rq, lc)
    [] at = "cfc_iter" -> CfcIter(db, rq, lc)
    [] at = "cfc_item" -> CfcItem(db, rq, lc)
    [] at = "cfc_save" -> CfcSave(db, rq, lc)
    [] at = "cfc_delete" -> CfcDelete(db, rq, lc)

\* get_object(): the order pk among the caller's visible orders.
Resolves(db, u, o) == o \in 1..Len(db.orders) /\ Visible(db, u, o)

\* POST /orders/<pk>/assign_order/, lines 98-107: permission, get_object(),
\* delivery_crew_id, User.objects.get.
AssignRead(db, rq, lc) ==
  IF ~IsManager(db, rq.user) THEN Ret(db, lc, "Forbidden")
  ELSE IF ~Resolves(db, rq.user, rq.pk) THEN Ret(db, lc, "NotFound")
  ELSE IF rq.arg = None THEN Ret(db, lc, "TargetRequired")
  ELSE IF rq.arg \notin Users THEN Ret(db, lc, "NotFound")
  ELSE Go(db, [lc EXCEPT !.order = rq.pk, !.rec = db.orders[rq.pk]], "assign_check")

\* (mutation) the already-assigned test of lines 109-110 left out
AssignCheckReassign(db, rq, lc) ==
  IF ~IsDeliveryCrew(db, rq.arg) THEN Ret(db, lc, "InvalidRole")
  ELSE IF rq.arg = rq.user THEN Ret(db, lc, "SelfAssignment")
  ELSE Go(db, lc, "assign_save")

\* (mutation) the save of line 119 moved before the checks of lines 109-116
AssignCheckEager(db, rq, lc) ==
  LET rec == [lc.rec EXCEPT !.delivery_crew = rq.arg]
      saved == [db EXCEPT !.orders[lc.order] = rec]
  IN IF lc.rec.delivery_crew # None THEN Ret(saved, lc, "AlreadyAssigned")
     ELSE IF ~IsDeliveryCrew(db, rq.arg) THEN Ret(saved, lc, "InvalidRole")
     ELSE IF rq.arg = rq.user THEN Ret(saved, lc, "SelfAssignment")
     ELSE Go(saved, lc, "assign_save")

\* Lines 109-116: the checks on the copy read above and on the target's groups.
AssignCheck(db, rq, lc) ==
  IF lc.rec.delivery_crew # None THEN Ret(db, lc, "AlreadyAssigned")
  ELSE IF ~IsDeliveryCrew(db, rq.arg) THEN Ret(db, lc, "InvalidRole")
  ELSE IF rq.arg = rq.user THEN Ret(db, lc, "SelfAssignment")
  ELSE Go(db, lc, "assign_save")

\* Lines 118-119: order.delivery_crew = delivery_user; order.save().
AssignSave(db, rq, lc) ==
  LET rec == [lc.rec EXCEPT !.delivery_crew = rq.arg]
  IN Ret(SaveOrder(db, lc.order, rec), [lc EXCEPT !.rec = rec], "Assigned")

AssignOrderStep(db, rq, lc, at) ==
  CASE at = "assign_read" -> AssignRead(db, rq, lc)
    [] at = "assign_check" -> AssignCheck(db, rq, lc)
    [] at = "assign_save" -> AssignSave(db, rq, lc)

\* (mutation) the delivered test of lines 132-133 left out
MarkReadUnchecked(db, rq, lc) ==
  IF ~IsDeliveryCrew(db, rq.user) THEN Ret(db, lc, "Forbidden")
  ELSE IF ~Resolves(db, rq.user, rq.pk) THEN Ret(db, lc, "NotFound")
  ELSE Go(db, [lc EXCEPT !.order = rq.pk, !.rec = db.orders[rq.pk]], "mark_save")

\* (mutation) the order looked up among all orders, not in get_queryset()
MarkReadUnscoped(db, rq, lc) ==
  IF ~IsDeliveryCrew(db, rq.user) THEN Ret(db, lc, "Forbidden")
  ELSE IF rq.pk \notin 1..Len(db.orders) THEN Ret(db, lc, "NotFound")
  ELSE IF db.orders[rq.pk].status THEN Ret(db, lc, "AlreadyDelivered")
  ELSE Go(db, [lc EXCEPT !.order = rq.pk, !.rec = db.orders[rq.pk]], "mark_save")

\* POST /orders/<pk>/mark_delivered/, lines 130-133.
MarkRead(db, rq, lc) ==
  IF ~IsDeliveryCrew(db, rq.user) THEN Ret(db, lc, "Forbidden")
  ELSE IF ~Resolves(db, rq.user, rq.pk) THEN Ret(db, lc, "NotFound")
  ELSE IF db.orders[rq.pk].status THEN Ret(db, lc, "AlreadyDelivered")
  ELSE Go(db, [lc EXCEPT !.order = rq.pk, !.rec = db.orders[rq.pk]], "mark_save")

\* Lines 135-136: order.status = True; order.save().
MarkSave(db, rq, lc) ==
  LET rec == [lc.rec EXCEPT !.status = TRUE]
  IN Ret(SaveOrder(db, lc.order, rec), [lc EXCEPT !.rec = rec], "Delivered")

MarkDeliveredStep(db, rq, lc, at) ==
  CASE at = "mark_read" -> MarkRead(db, rq, lc)
    [] at = "mark_save" -> MarkSave(db, rq, lc)

\* PUT /orders/<pk>/: get_object(), then serializer.save() with no writable
\* field, which saves the instance as read.
OrderUpdateRead(db, rq, lc) ==
  IF ~Resolves(db, rq.user, rq.pk) THEN Ret(db, lc, "NotFound")
  ELSE Go(db, [lc EXCEPT !.order = rq.pk, !.rec = db.orders[rq.pk]], "order_update_save")

OrderUpdateSave(db, rq, lc) == Ret(SaveOrder(db, lc.order, lc.rec), lc, "OK")

(* ------------------------------ UserViewSet --------------------------- *)
\* (mutation) set_manager open to every authenticated user
SetManagerUngated(db, rq, lc) ==
  IF rq.pk \notin Users THEN Ret(db, lc, "ServerError")
  ELSE Ret([db EXCEPT !.groups[rq.pk] = @ \cup {Manager}], lc, "OK")

\* POST /users/<pk>/set_manager/: User.objects.get raises for an unknown pk.
SetManager(db, rq, lc) ==
  IF ~IsAdmin(db, rq.user) THEN Ret(db, lc, "Forbidden")
  ELSE IF rq.pk \notin Users THEN Ret(db, lc, "ServerError")
  ELSE Ret([db EXCEPT !.groups[rq.pk] = @ \cup {Manager}], lc, "OK")

\* POST /users/<pk>/set_delivery/.
SetDelivery(db, rq, lc) ==
  IF ~IsManager(db, rq.user) THEN Ret(db, lc, "Forbidden")
  ELSE IF rq.pk \notin Users THEN Ret(db, lc, "ServerError")
  ELSE Ret([db EXCEPT !.groups[rq.pk] = @ \cup {DeliveryCrew}], lc, "OK")

\* POST /users/<pk>/assign_order/, lines 166-168: Order.objects.get and
\* User.objects.get raise for an unknown id.
UserAssignRead(db, rq, lc) ==
  IF ~IsManager(db, rq.user) THEN Ret(db, lc, "Forbidden")
  ELSE IF rq.arg \notin 1..Len(db.orders) THEN Ret(db, lc, "ServerError")
  ELSE IF rq.pk \notin Users THEN Ret(db, lc, "ServerError")
  ELSE Go(db, [lc EXCEPT !.order = rq.arg, !.rec = db.orders[rq.arg]], "user_assign_save")

\* Lines 169-170: order.delivery_crew = user; order.save().
UserAssignSave(db, rq, lc) ==
  LET rec == [lc.rec EXCEPT !.delivery_crew = rq.pk]
  IN Ret(SaveOrder(db, lc.order, rec), [lc EXCEPT !.rec = rec], "OK")

(* ------------------------------ dispatch ------------------------------ *)
\* urls.py: the handler's first step for each route.
FirstPc(op) ==
  CASE op = "create_from_cart" -> "cfc_exists"
    [] op = "cart_update" -> "cart_update_read"
    [] op = "cart_destroy" -> "cart_destroy_read"
    [] op = "assign_order" -> "assign_read"
    [] op = "mark_delivered" -> "mark_read"
    [] op = "order_update" -> "order_update_read"
    [] op = "user_assign_order" -> "user_assign_read"
    [] OTHER -> op

Step(db, rq, lc, at) ==
  CASE rq.op = "cart_create" -> CartCreate(db, rq, lc)
    [] rq.op = "cart_list" -> CartList(db, rq, lc)
    [] rq.op = "cart_update" ->
         IF at = "cart_update_read" THEN CartUpdateRead(db, rq, lc)
         ELSE CartUpdateSave(db, rq, lc)
    [] rq.op = "cart_destroy" ->
         IF at = "cart_destroy_read" THEN CartDestroyRead(db, rq, lc)
         ELSE CartDestroyDelete(db, rq, lc)
    [] rq.op = "cart_clear" -> CartClear(db, rq, lc)
    [] rq.op = "menu_update" -> MenuUpdate(db, rq, lc)
    [] rq.op = "menu_destroy" -> MenuDestroy(db, rq, lc)
    [] rq.op = "order_list" -> OrderList(db, rq, lc)
    [] rq.op = "order_create" -> OrderCreate(db, rq, lc)
    [] rq.op = "create_from_cart" -> CreateFromCartStep(db, rq, lc, at)
    [] rq.op = "assign_order" -> AssignOrderStep(db, rq, lc, at)
    [] rq.op = "mark_delivered" -> MarkDeliveredStep(db, rq, lc, at)
    [] rq.op = "order_update" ->
         IF at = "order_update_read" THEN OrderUpdateRead(db, rq, lc)
         ELSE OrderUpdateSave(db, rq, lc)
    [] rq.op = "set_manager" -> SetManager(db, rq, lc)
    [] rq.op = "set_delivery" -> SetDelivery(db, rq, lc)
    [] rq.op = "user_assign_order" ->
         IF at = "user_assign_read" THEN UserAssignRead(db, rq, lc)
         ELSE UserAssignSave(db, rq, lc)

\* A handler run from its first step to its response with no other request
\* in between.
RECURSIVE RunFrom(_, _, _, _)
RunFrom(db, rq, lc, at) ==
  LET out == Step(db, rq, lc, at)
  IN IF out.pc = "done" THEN out ELSE RunFrom(out.db, rq, out.lc, out.pc)

Run(db, rq) == RunFrom(db, rq, NoLocals, FirstPc(rq.op))

(* ------------------------------ requests ------------------------------ *)
CartRequests(U) ==
  {Request("cart_create", u, None, m, q) : u \in U, m \in MenuItems, q \in Quantities}
  \cup {Request("cart_update", u, i, m, q) :
          u \in U, i \in 1..MaxCartLines, m \in MenuItems, q \in Quantities}
  \cup {Request("cart_destroy", u, i, None, 0) : u \in U, i \in 1..MaxCartLines}
  \cup {Request("cart_clear", u, None, None, 0) : u \in U}

\* price changes of item 1, sent by user 3
MenuRequests ==
  {Request("menu_update", u, m, c, 0) : u \in {3}, m \in {1}, c \in Prices}

CreationRequests(U) ==
  {Request("create_from_cart", u, None, None, 0) : u \in U}
  \cup {Request("order_create", u, None, None, 0) : u \in U}

OrderIds == (1..MaxOrders) \cup {UnknownId}
UserIds == Users \cup {UnknownId}

AssignRequests ==
  {Request("assign_order", u, o, t, 0) : u \in Users, o \in OrderIds, t \in UserIds \cup {None}}

DeliveryRequests ==
  {Request("mark_delivered", u, o, None, 0) : u \in Users, o \in OrderIds}

UpdateRequests ==
  {Request("order_update", u, o, None, 0) : u \in Users, o \in OrderIds}

UserRequests ==
  {Request("user_assign_order", u, t, o, 0) : u \in Users, t \in UserIds, o \in OrderIds}

GrantRequests ==
  {Request("set_manager", u, t, None, 0) : u \in Users, t \in UserIds}
  \cup {Request("set_delivery", u, t, None, 0) : u \in Users, t \in UserIds}

ListRequests == {Request("order_list", u, None, None, 0) : u \in Users}

\* The bounds of the model: no more than MaxOrders orders and MaxCartLines
\* cart ids are ever handed out.
Creating(p) == req[p].op = "create_from_cart" /\ pc[p] = "cfc_create"

Admissible(rq) ==
  /\ rq.op \in {"create_from_cart", "order_create"} =>
       Len(orders) + Cardinality({p \in Procs : Creating(p)}) < MaxOrders
  /\ rq.op = "cart_create" => cartSeq < MaxCartLines

(* ------------------------------ initial states ------------------------ *)
InitRoles ==
  /\ groups = [u \in Users |-> CASE u = 1 -> {Admin, Manager}
                                 [] u = 2 -> {Manager, DeliveryCrew}
                                 [] OTHER -> {}]
  /\ is_staff = [u \in Users |-> FALSE]

InitWorkers ==
  /\ pc = [p \in Procs |-> "done"]
  /\ req = [p \in Procs |-> NoRequest]
  /\ loc = [p \in Procs |-> NoLocals]
  /\ resp = [p \in Procs |-> "none"]
  /\ body = [p \in Procs |-> <<>>]

\* The store after migration: users and menu items, no cart row, no order.
Init ==
  /\ InitRoles
  /\ InitWorkers
  /\ price = [m \in MenuItems |-> IF m = 1 THEN 10 ELSE 5]
  /\ cart = <<>>
  /\ cartSeq = 0
  /\ orders = <<>>
  /\ items = <<>>

(* ------------------------------ workers ------------------------------- *)
\* Worker p takes request rq and performs the handler's first store access.
Begin(p, rq) ==
  /\ pc[p] = "done"
  /\ Admissible(rq)
  /\ LET out == Step(Store, rq, NoLocals, FirstPc(rq.op))
     IN /\ SetStore(out.db)
        /\ pc' = [pc EXCEPT ![p] = out.pc]
        /\ loc' = [loc EXCEPT ![p] = IF out.pc = "done" THEN NoLocals ELSE out.lc]
        /\ resp' = [resp EXCEPT ![p] = out.resp]
        /\ body' = [body EXCEPT ![p] = out.body]
  /\ req' = [req EXCEPT ![p] = rq]

\* Worker p performs the next store access of its handler.
Advance(p) ==
  /\ pc[p] # "done"
  /\ LET out == Step(Store, req[p], loc[p], pc[p])
     IN /\ SetStore(out.db)
        /\ pc' = [pc EXCEPT ![p] = out.pc]
        /\ loc' = [loc EXCEPT ![p] = IF out.pc = "done" THEN NoLocals ELSE out.lc]
        /\ resp' = [resp EXCEPT ![p] = out.resp]
        /\ body' = [body EXCEPT ![p] = out.body]
  /\ UNCHANGED req

\* Worker p dies between two store accesses: nothing is rolled back.
Crash(p) ==
  /\ pc[p] # "done"
  /\ pc' = [pc EXCEPT ![p] = "done"]
  /\ loc' = [loc EXCEPT ![p] = NoLocals]
  /\ resp' = [resp EXCEPT ![p] = "crashed"]
  /\ body' = [body EXCEPT ![p] = <<>>]
  /\ UNCHANGED <<storeVars, req>>

\* Worker 1 serves request rq from start to response, nothing in between.
Serve(rq) ==
  /\ \A p \in Procs : pc[p] = "done"
  /\ Admissible(rq)
  /\ LET out == Run(Store, rq)
     IN /\ SetStore(out.db)
        /\ resp' = [resp EXCEPT ![1] = out.resp]
        /\ body' = [body EXCEPT ![1] = out.body]
  /\ UNCHANGED <<pc, req, loc>>

(* ------------- ordering, one request at a time: SeqSpec ---------------- *)
SeqRequests == CartRequests(Customers) \cup MenuRequests \cup CreationRequests(Customers)

SeqCartCreate == \E rq \in SeqRequests : rq.op = "cart_create" /\ Serve(rq)
SeqCartDestroy == \E rq \in SeqRequests : rq.op = "cart_destroy" /\ Serve(rq)
SeqCartClear == \E rq \in SeqRequests : rq.op = "cart_clear" /\ Serve(rq)
SeqMenuUpdate == \E rq \in SeqRequests : rq.op = "menu_update" /\ Serve(rq)
SeqOrderCreate == \E rq \in SeqRequests : rq.op = "order_create" /\ Serve(rq)
SeqCreateFromCart == \E rq \in SeqRequests : rq.op = "create_from_cart" /\ Serve(rq)

SeqNext ==
  \/ SeqCartCreate
  \/ SeqCartDestroy
  \/ SeqCartClear
  \/ SeqMenuUpdate
  \/ SeqOrderCreate
  \/ SeqCreateFromCart

SeqSpec == Init /\ [][SeqNext]_vars

(* ------------- the carts, one request at a time: CartSpec -------------- *)
\* The cart requests of two customers with quantities below, at and above
\* zero and menu item ids that exist or not, and their conversions.
CartQuantities == {-1, 0, 1}

CartSpecRequests ==
  {Request("cart_create", u, None, m, q) :
     u \in Customers, m \in MenuItems \cup {UnknownId}, q \in CartQuantities}
  \cup {Request("cart_update", u, i, m, q) :
          u \in Customers, i \in 1..MaxCartLines, m \in MenuItems, q \in CartQuantities}
  \cup {Request("cart_destroy", u, i, None, 0) : u \in Customers, i \in 1..MaxCartLines}
  \cup {Request("cart_clear", u, None, None, 0) : u \in Customers}
  \cup {Request("cart_list", u, None, None, 0) : u \in Customers}
  \cup {Request("create_from_cart", u, None, None, 0) : u \in Customers}

CartSpecList == \E rq \in CartSpecRequests : rq.op = "cart_list" /\ Serve(rq)
CartSpecCreate == \E rq \in CartSpecRequests : rq.op = "cart_create" /\ Serve(rq)
CartSpecUpdate == \E rq \in CartSpecRequests : rq.op = "cart_update" /\ Serve(rq)
CartSpecDestroy == \E rq \in CartSpecRequests : rq.op = "cart_destroy" /\ Serve(rq)
CartSpecClear == \E rq \in CartSpecRequests : rq.op = "cart_clear" /\ Serve(rq)
CartSpecCreateFromCart == \E rq \in CartSpecRequests : rq.op = "create_from_cart" /\ Serve(rq)

CartSpecNext ==
  \/ CartSpecList
  \/ CartSpecCreate
  \/ CartSpecUpdate
  \/ CartSpecDestroy
  \/ CartSpecClear
  \/ CartSpecCreateFromCart

CartSpec == Init /\ [][CartSpecNext]_vars

(* ------------- workflow, one request at a time: FlowSpec --------------- *)
\* Orders as conversions of one-line carts leave them: owned by a customer,
\* not delivered, unassigned, one line of item 1, total its price.  User 3
\* is a plain customer or has been granted the delivery crew role.
PlacedOrder(u) == [NewOrder(u) EXCEPT !.total = 10]

InitFlow ==
  /\ \E g \in {{}, {DeliveryCrew}} :
       groups = [u \in Users |-> CASE u = 1 -> {Admin, Manager}
                                  [] u = 2 -> {Manager, DeliveryCrew}
                                  [] OTHER -> g]
  /\ is_staff = [u \in Users |-> FALSE]
  /\ InitWorkers
  /\ price = [m \in MenuItems |-> IF m = 1 THEN 10 ELSE 5]
  /\ cart = <<>>
  /\ \E n \in 1..MaxOrders :
       /\ cartSeq = n
       /\ orders \in [1..n -> {PlacedOrder(u) : u \in Customers}]
       /\ items = [o \in 1..n |-> <<[menuitem |-> 1, quantity |-> 1]>>]

FlowRequests == AssignRequests \cup DeliveryRequests \cup UpdateRequests \cup UserRequests

FlowAssignOrder == \E rq \in FlowRequests : rq.op = "assign_order" /\ Serve(rq)
FlowMarkDelivered == \E rq \in FlowRequests : rq.op = "mark_delivered" /\ Serve(rq)
FlowOrderUpdate == \E rq \in FlowRequests : rq.op = "order_update" /\ Serve(rq)
FlowUserAssignOrder == \E rq \in FlowRequests : rq.op = "user_assign_order" /\ Serve(rq)

FlowNext ==
  \/ FlowAssignOrder
  \/ FlowMarkDelivered
  \/ FlowOrderUpdate
  \/ FlowUserAssignOrder

FlowSpec == InitFlow /\ [][FlowNext]_vars

(* ------------- roles and the orders they list: ViewSpec ---------------- *)
\* User 1 holds any set of groups and may be staff (both are set on the admin
\* site only); user 2 is on the delivery crew, user 3 a plain customer.  The
\* stored orders have any owner and any or no delivery crew.
InitView ==
  /\ \E g \in SUBSET {Admin, Manager, DeliveryCrew} :
       groups = [u \in Users |-> CASE u = 1 -> g
                                  [] u = 2 -> {DeliveryCrew}
                                  [] OTHER -> {}]
  /\ \E b \in BOOLEAN : is_staff = [u \in Users |-> u = 1 /\ b]
  /\ InitWorkers
  /\ price = [m \in MenuItems |-> IF m = 1 THEN 10 ELSE 5]
  /\ cart = <<>>
  /\ \E n \in 1..MaxOrders :
       /\ cartSeq = n
       /\ orders \in [1..n -> {[PlacedOrder(u) EXCEPT !.delivery_crew = c] :
                                 u \in Users, c \in Users \cup {None}}]
       /\ items = [o \in 1..n |-> <<[menuitem |-> 1, quantity |-> 1]>>]

ViewRequests == ListRequests \cup GrantRequests

ViewOrderList == \E rq \in ViewRequests : rq.op = "order_list" /\ Serve(rq)
ViewSetManager == \E rq \in ViewRequests : rq.op = "set_manager" /\ Serve(rq)
ViewSetDelivery == \E rq \in ViewRequests : rq.op = "set_delivery" /\ Serve(rq)

ViewNext ==
  \/ ViewOrderList
  \/ ViewSetManager
  \/ ViewSetDelivery

ViewSpec == InitView /\ [][ViewNext]_vars

(* ------------- roles and the orders they deliver: DeliverySpec --------- *)
\* The same stores; the users list the orders and mark them delivered.
DeliverySpecRequests == ListRequests \cup DeliveryRequests

DeliveryOrderList == \E rq \in DeliverySpecRequests : rq.op = "order_list" /\ Serve(rq)
DeliveryMarkDelivered == \E rq \in DeliverySpecRequests : rq.op = "mark_delivered" /\ Serve(rq)

DeliveryNext ==
  \/ DeliveryOrderList
  \/ DeliveryMarkDelivered

DeliverySpec == InitView /\ [][DeliveryNext]_vars

(* ------- conversion against cart requests and crashes: CartRaceSpec ----- *)
\* One customer's requests on two workers, steps interleaving freely: worker
\* Converter serves the conversions, worker Editor the cart requests.
Shopper == CHOOSE u \in Customers : \A v \in Customers : u <= v
Converter == CHOOSE p \in Procs : \A q \in Procs : p <= q
Editor == CHOOSE p \in Procs : p # Converter

CartRaceRequests ==
  CartRequests({Shopper}) \cup {Request("create_from_cart", Shopper, None, None, 0)}

RaceCartCreate(p) == \E rq \in CartRaceRequests : rq.op = "cart_create" /\ Begin(p, rq)
RaceCartClear(p) == \E rq \in CartRaceRequests : rq.op = "cart_clear" /\ Begin(p, rq)
RaceCartUpdate(p) ==
  \/ \E rq \in CartRaceRequests : rq.op = "cart_update" /\ Begin(p, rq)
  \/ req[p].op = "cart_update" /\ Advance(p)
RaceCartDestroy(p) ==
  \/ \E rq \in CartRaceRequests : rq.op = "cart_destroy" /\ Begin(p, rq)
  \/ req[p].op = "cart_destroy" /\ Advance(p)
RaceCreateFromCart(p) ==
  \/ \E rq \in CartRaceRequests : rq.op = "create_from_cart" /\ Begin(p, rq)
  \/ req[p].op = "create_from_cart" /\ Advance(p)
RaceCrash(p) == req[p].op = "create_from_cart" /\ Crash(p)

CartRaceNext ==
  \/ RaceCartCreate(Editor)
  \/ RaceCartClear(Editor)
  \/ RaceCartUpdate(Editor)
  \/ RaceCartDestroy(Editor)
  \/ RaceCreateFromCart(Converter)
  \/ RaceCrash(Converter)

CartRaceSpec == Init /\ [][CartRaceNext]_vars

(* ------------- two assignments at once: AssignRaceSpec ---------------- *)
\* Every caller, every stored order, every existing target.
RaceAssignRequests ==
  {Request("assign_order", u, o, t, 0) : u \in Users, o \in 1..MaxOrders, t \in Users}

RaceAssignOrder(p) ==
  \/ \E rq \in RaceAssignRequests : rq.op = "assign_order" /\ Begin(p, rq)
  \/ req[p].op = "assign_order" /\ Advance(p)

AssignRaceNext == \E p \in Procs : RaceAssignOrder(p)

AssignRaceSpec == InitFlow /\ [][AssignRaceNext]_vars

(* ------------- the workflow requests at once: Spec -------------------- *)
\* Assignments by the Managers 1 and 2 to users 2 and 3, deliveries by users
\* 2 and 3, updates by every user, all on stored orders.
WorkflowRequests ==
  {Request("assign_order", u, o, t, 0) : u \in {1, 2}, o \in 1..MaxOrders, t \in {2, 3}}
  \cup {Request("mark_delivered", u, o, None, 0) : u \in {2, 3}, o \in 1..MaxOrders}
  \cup {Request("order_update", u, o, None, 0) : u \in Users, o \in 1..MaxOrders}
  \cup {Request("user_assign_order", u, t, o, 0) :
           u \in {1, 2}, t \in {2, 3}, o \in 1..MaxOrders}

AssignOrder(p) ==
  \/ \E rq \in WorkflowRequests : rq.op = "assign_order" /\ Begin(p, rq)
  \/ req[p].op = "assign_order" /\ Advance(p)
MarkDelivered(p) ==
  \/ \E rq \in WorkflowRequests : rq.op = "mark_delivered" /\ Begin(p, rq)
  \/ req[p].op = "mark_delivered" /\ Advance(p)
OrderUpdate(p) ==
  \/ \E rq \in WorkflowRequests : rq.op = "order_update" /\ Begin(p, rq)
  \/ req[p].op = "order_update" /\ Advance(p)
UserAssignOrder(p) ==
  \/ \E rq \in WorkflowRequests : rq.op = "user_assign_order" /\ Begin(p, rq)
  \/ req[p].op = "user_assign_order" /\ Advance(p)

Next ==
  \E p \in Procs :
    \/ AssignOrder(p)
    \/ MarkDelivered(p)
    \/ OrderUpdate(p)
    \/ UserAssignOrder(p)

Spec == InitFlow /\ [][Next]_vars

(* ------- conversion against the workflow requests: TotalRaceSpec ------- *)
\* The Shopper's cart holds one or two rows and there is no order yet.  Worker
\* Converter serves the Shopper's conversion while worker Editor serves the
\* workflow requests, steps interleaving freely.
InitCart ==
  /\ InitRoles
  /\ InitWorkers
  /\ price = [m \in MenuItems |-> IF m = 1 THEN 10 ELSE 5]
  /\ \E n \in 1..MaxCartLines :
       /\ cartSeq = n
       /\ cart \in [1..n -> [user : {Shopper}, menuitem : MenuItems, quantity : Quantities]]
  /\ orders = <<>>
  /\ items = <<>>

TotalRaceNext ==
  \/ RaceCreateFromCart(Converter)
  \/ AssignOrder(Editor)
  \/ MarkDelivered(Editor)
  \/ OrderUpdate(Editor)
  \/ UserAssignOrder(Editor)

TotalRaceSpec == InitCart /\ [][TotalRaceNext]_vars

(* ------------- orders against the catalogue: MenuSpec ------------------ *)
\* The Shopper converts its cart; user 3 changes the price of item 1 and
\* deletes menu items; one request at a time.
MenuSpecRequests ==
  MenuRequests
  \cup {Request("menu_destroy", u, m, None, 0) : u \in {3}, m \in MenuItems}
  \cup {Request("create_from_cart", Shopper, None, None, 0)}

MenuSpecUpdate == \E rq \in MenuSpecRequests : rq.op = "menu_update" /\ Serve(rq)
MenuSpecDestroy == \E rq \in MenuSpecRequests : rq.op = "menu_destroy" /\ Serve(rq)
MenuSpecCreateFromCart == \E rq \in MenuSpecRequests : rq.op = "create_from_cart" /\ Serve(rq)

MenuSpecNext ==
  \/ MenuSpecUpdate
  \/ MenuSpecDestroy
  \/ MenuSpecCreateFromCart

MenuSpec == InitCart /\ [][MenuSpecNext]_vars

(* ------------------------------ C2, C3, C10 --------------------------- *)
CreateFromCartRequest(u) == Request("create_from_cart", u, None, None, 0)

\* sum of menuitem.price * quantity over the cart rows with ids in S
RECURSIVE CartValue(_, _)
CartValue(db, S) ==
  IF S = {} THEN 0
  ELSE LET i == CHOOSE x \in S : TRUE
       IN db.price[db.cart[i].menuitem] * db.cart[i].quantity + CartValue(db, S \ {i})

LineKinds == [menuitem : MenuItems, quantity : Quantities \cup {0}]

\* The lines of order o are, kind by kind, as many as the cart rows S of db.
SameLines(db, S, lines) ==
  \A k \in LineKinds :
    Cardinality({i \in S : db.cart[i].menuitem = k.menuitem /\ db.cart[i].quantity = k.quantity})
      = Cardinality({n \in 1..Len(lines) : lines[n] = k})

C3_EmptyCart ==
  [][\A u \in Customers :
       (CartOf(Store, u) = {} /\ Serve(CreateFromCartRequest(u))) =>
         /\ resp'[1] = "EmptyCart"
         /\ UNCHANGED storeVars
         /\ Run(Store', CreateFromCartRequest(u)).resp = "EmptyCart"
         /\ Run(Store', CreateFromCartRequest(u)).db = Store
    ]_vars

\* An empty-cart refusal with the other customer's cart rows still in place.
C3_Witness ==
  /\ resp[1] = "EmptyCart"
  /\ orders = <<>>
  /\ CartOf(Store, 3) = {}
  /\ CartOf(Store, 2) # {}

OrderCreateRequest(u) == Request("order_create", u, None, None, 0)

\* C10 as claimed: every order in the store comes from a conversion of a
\* non-empty cart, so every order has at least one line.
C10_OnlyConversion == \A o \in 1..Len(orders) : items[o] # <<>>

\* C10 amended: the orders only ever grow, one at a time, and a new order
\* comes either from a conversion of the caller's non-empty cart (it then has
\* that cart's lines) or from the generic create of the order resource, which
\* adds an order of the caller, not delivered, unassigned, with total 0 and
\* no line, and leaves the carts alone.
C10_Creation ==
  [][/\ Len(orders') >= Len(orders)
     /\ Len(items') = Len(orders')
     /\ Len(orders') > Len(orders) =>
          LET o == Len(orders) + 1
          IN /\ Len(orders') = o
             /\ \A n \in 1..Len(orders) : orders'[n] = orders[n] /\ items'[n] = items[n]
             /\ \E u \in Customers :
                  \/ /\ Serve(CreateFromCartRequest(u))
                     /\ CartOf(Store, u) # {}
                     /\ resp'[1] = "OrderCreated"
                     /\ orders'[o].user = u
                     /\ items'[o] # <<>>
                     /\ SameLines(Store, CartOf(Store, u), items'[o])
                  \/ /\ Serve(OrderCreateRequest(u))
                     /\ resp'[1] = "Created"
                     /\ orders'[o] = NewOrder(u)
                     /\ items'[o] = <<>>
                     /\ cart' = cart
    ]_vars

\* The generic create has added an order with no line and total 0 while the
\* caller's cart was not empty.
C10_Witness ==
  /\ resp[1] = "Created"
  /\ Len(orders) = 1
  /\ orders[1] = NewOrder(3)
  /\ items[1] = <<>>
  /\ CartOf(Store, 3) # {}

(* ------------------------------ C4, C8, C9 ---------------------------- *)
AssignRequest(u, o, t) == Request("assign_order", u, o, t, 0)
MarkRequest(u, o) == Request("mark_delivered", u, o, None, 0)

\* C4: a guarded assign succeeds only on an order with no delivery crew and
\* leaves it assigned to its target; from then on, whatever is served next,
\* every assign on that order by a Manager for a target that resolves answers
\* "already assigned" and writes nothing, so the order keeps its assignee; and
\* an assigned order is never unassigned again.
C4_SingleShot ==
  [][\A u \in Users, o \in 1..Len(orders), t \in Users :
       /\ (resp'[1] = "Assigned" /\ Serve(AssignRequest(u, o, t))) =>
            /\ orders[o].delivery_crew = None
            /\ orders'[o].delivery_crew = t
            /\ \A m \in Users, x \in Users :
                 IsManager(Store', m) =>
                   /\ Run(Store', AssignRequest(m, o, x)).resp = "AlreadyAssigned"
                   /\ Run(Store', AssignRequest(m, o, x)).db = Store'
       /\ (IsManager(Store, u) /\ orders[o].delivery_crew # None
             /\ Serve(AssignRequest(u, o, t))) =>
            /\ resp'[1] = "AlreadyAssigned"
            /\ UNCHANGED storeVars
       /\ orders[o].delivery_crew # None => orders'[o].delivery_crew # None
    ]_vars

\* A second assign, for another target, was refused on an order assigned to 2.
C4_Witness ==
  /\ resp[1] = "AlreadyAssigned"
  /\ orders[1].delivery_crew = 2
  /\ DeliveryCrew \in groups[3]
  /\ orders[1].status = FALSE

\* C8: an assign that does not answer "assigned" writes nothing, and the
\* error is the first that applies, in the order of the handler: a caller
\* who is no Manager is forbidden; an unknown order is not found; an unknown
\* target is not found; on an order not yet assigned a target outside the
\* delivery crew is an invalid role and a delivery-crew target equal to the
\* caller a self-assignment.
C8_FailingAssign ==
  [][\A rq \in AssignRequests :
       Serve(rq) =>
         LET u == rq.user
             o == rq.pk
             t == rq.arg
             known == o \in 1..Len(orders)
             free == known /\ orders[o].delivery_crew = None
         IN /\ resp'[1] # "Assigned" => UNCHANGED storeVars
            /\ resp'[1] \in {"Assigned", "Forbidden", "NotFound", "TargetRequired",
                            "AlreadyAssigned", "InvalidRole", "SelfAssignment"}
            /\ ~IsManager(Store, u) => resp'[1] = "Forbidden"
            /\ IsManager(Store, u) /\ ~known => resp'[1] = "NotFound"
            /\ IsManager(Store, u) /\ known /\ t = UnknownId => resp'[1] = "NotFound"
            /\ IsManager(Store, u) /\ free /\ t \in Users /\ ~IsDeliveryCrew(Store, t) =>
                 resp'[1] = "InvalidRole"
            /\ IsManager(Store, u) /\ free /\ t = u /\ IsDeliveryCrew(Store, u) =>
                 resp'[1] = "SelfAssignment"
            /\ resp'[1] = "Assigned" =>
                 /\ IsManager(Store, u) /\ free /\ t \in Users \ {u}
                 /\ IsDeliveryCrew(Store, t)
                 /\ orders' = [orders EXCEPT ![o].delivery_crew = t]
                 /\ UNCHANGED <<groups, is_staff, price, cart, cartSeq, items>>
    ]_vars

\* Manager 2, also delivery crew, was refused an assignment to itself and the
\* order is still unassigned.
C8_Witness ==
  /\ resp[1] = "SelfAssignment"
  /\ \A o \in 1..Len(orders) : orders[o].delivery_crew = None

\* C9: mark_delivered by a delivery-crew caller who can address the order:
\* on an order not delivered it answers success and changes the status alone
\* to delivered, and the same call served again right after answers the
\* already-delivered warning and writes nothing; on a delivered order it
\* answers the warning and writes nothing.
C9_MarkTwice ==
  [][\A u \in Users, o \in 1..Len(orders) :
       (Serve(MarkRequest(u, o)) /\ IsDeliveryCrew(Store, u) /\ Visible(Store, u, o)) =>
         IF orders[o].status
         THEN resp'[1] = "AlreadyDelivered" /\ UNCHANGED storeVars
         ELSE /\ resp'[1] = "Delivered"
              /\ orders' = [orders EXCEPT ![o].status = TRUE]
              /\ UNCHANGED <<groups, is_staff, price, cart, cartSeq, items>>
              /\ Run(Store', MarkRequest(u, o)).resp = "AlreadyDelivered"
              /\ Run(Store', MarkRequest(u, o)).db = Store'
    ]_vars

\* The second of two calls met a delivered order assigned to crew member 3.
C9_Witness ==
  /\ resp[1] = "AlreadyDelivered"
  /\ orders[1].status = TRUE
  /\ orders[1].delivery_crew = 3

(* ------------------------------ C1, C5, C6 ---------------------------- *)
\* sum of price * quantity over the lines of an order
RECURSIVE LinesValue(_, _)
LinesValue(db, lines) ==
  IF lines = <<>> THEN 0
  ELSE db.price[Head(lines).menuitem] * Head(lines).quantity + LinesValue(db, Tail(lines))

\* C1: conversion is all or nothing.  Whenever no conversion is under way,
\* whether the last one answered or its worker died, every stored order has
\* its lines and the total of its lines.
C1_Atomic ==
  pc[Converter] = "done" =>
    \A o \in 1..Len(orders) :
      items[o] # <<>> /\ orders[o].total = LinesValue(Store, items[o])

\* C5: two Managers have each been answered on an assignment of the same
\* order to different delivery-crew members other than themselves: one call
\* succeeded at most, the other was told the order is already assigned, and
\* the order's delivery crew is the target of the call that succeeded.
ValidAssign(rq) ==
  /\ rq.op = "assign_order"
  /\ IsManager(Store, rq.user)
  /\ IsDeliveryCrew(Store, rq.arg)
  /\ rq.arg # rq.user

C5_OneWinner ==
  (/\ \A p \in Procs : pc[p] = "done" /\ ValidAssign(req[p])
   /\ req[1].user # req[2].user
   /\ req[1].pk = req[2].pk
   /\ req[1].arg # req[2].arg
   /\ \E p \in Procs : resp[p] = "Assigned") =>
    \E p \in Procs :
      /\ resp[p] = "Assigned"
      /\ \A q \in Procs \ {p} : resp[q] = "AlreadyAssigned"
      /\ orders[req[p].pk].delivery_crew = req[p].arg

\* C6: a delivered order stays delivered in every step.
C6_Monotonic ==
  [][\A o \in 1..Len(orders) : orders[o].status => orders'[o].status]_vars

(* ------------------------------ C7 ------------------------------------ *)
ListRequest(u) == Request("order_list", u, None, None, 0)

\* the ids a response lists
Listed(b) == {b[i] : i \in DOMAIN b}

\* C7: the list of orders answers a caller in group Manager or in group
\* Admin, the group that gates set_manager, with every stored order; any
\* other caller in group Delivery crew with exactly the orders whose delivery
\* crew it is; every other caller with exactly the orders it owns.  Stated
\* for the callers whose is_staff flag is off, whose groups are all that
\* get_queryset has to go by.
C7_ListVisible ==
  [][\A u \in Users :
       (Serve(ListRequest(u)) /\ ~is_staff[u]) =>
         /\ resp'[1] = "OK"
         /\ Listed(body'[1]) =
              IF IsManager(Store, u) \/ IsAdmin(Store, u) THEN 1..Len(orders)
              ELSE IF IsDeliveryCrew(Store, u)
                   THEN {o \in 1..Len(orders) : orders[o].delivery_crew = u}
                   ELSE {o \in 1..Len(orders) : orders[o].user = u}
    ]_vars

(* ------------------------------ C11, C12 ------------------------------ *)
UserAssignRequest(u, t, o) == Request("user_assign_order", u, t, o, 0)

\* C11: the delivery crew of an order is written once: in every step of the
\* whole interface (assign_order of the orders, assign_order of the users,
\* mark_delivered, the generic update) an order that has a delivery crew
\* keeps that delivery crew.
C11_WriteOnce ==
  [][\A o \in 1..Len(orders) :
       orders[o].delivery_crew # None =>
         orders'[o].delivery_crew = orders[o].delivery_crew
    ]_vars

\* C12: whichever request sets the delivery crew of an order, assign_order of
\* the orders or assign_order of the users, the user it sets is in group
\* Delivery crew when it is set and is not the caller.
C12_CrewNotSelf ==
  [][\A u \in Users, t \in Users, o \in 1..Len(orders) :
       /\ (resp'[1] = "Assigned" /\ Serve(AssignRequest(u, o, t))) =>
            IsDeliveryCrew(Store, t) /\ t # u
       /\ (resp'[1] = "OK" /\ Serve(UserAssignRequest(u, t, o))) =>
            IsDeliveryCrew(Store, t) /\ t # u
    ]_vars

(* ------------------------------ C13, C17, C18 ------------------------- *)
\* C13: whatever cart request or conversion a user sends, from whatever
\* reachable store: the list of the cart answers exactly the ids of the
\* caller's rows and writes nothing, and every request leaves each row of
\* another user in place and as it was and adds no row for another user.
C13_OwnCart ==
  \A rq \in CartSpecRequests :
    LET out == Run(Store, rq)
        u == rq.user
    IN /\ rq.op = "cart_list" =>
            /\ out.resp = "OK"
            /\ Listed(out.body) = CartOf(Store, u)
            /\ out.db = Store
       /\ \A i \in DOMAIN cart :
            cart[i].user # u => i \in DOMAIN out.db.cart /\ out.db.cart[i] = cart[i]
       /\ \A i \in DOMAIN out.db.cart :
            out.db.cart[i].user # u => i \in DOMAIN cart
       /\ \A i \in DOMAIN out.db.cart \cap DOMAIN cart :
            out.db.cart[i].user = cart[i].user

\* User 3 has converted its cart and user 2 still has its row.
C13_Witness ==
  /\ resp[1] = "OrderCreated"
  /\ orders[1].user = 3
  /\ CartOf(Store, 3) = {}
  /\ CartOf(Store, 2) # {}

\* C17: every stored cart row and every stored order line has a quantity of
\* at least 1.
C17_PositiveQuantity ==
  /\ \A i \in DOMAIN cart : cart[i].quantity >= 1
  /\ \A o \in 1..Len(items) : \A n \in 1..Len(items[o]) : items[o][n].quantity >= 1

\* C18: adding a line creates or updates the row of (user, menu item), so a
\* user's cart never holds two rows for the same menu item.
C18_OneRowPerItem ==
  \A u \in Customers, m \in MenuItems :
    Cardinality({i \in CartOf(Store, u) : cart[i].menuitem = m}) <= 1

(* ------------------------------ C14 ----------------------------------- *)
\* C14: from every reachable store, set_manager by a caller outside group
\* Admin and set_delivery by a caller outside group Manager are forbidden and
\* write nothing; by a caller in the group, for a user that exists, they
\* answer success and add the one group (Manager, Delivery crew) to the
\* target and change nothing else, so nothing at all when the target is in
\* the group already; hence a request that changes any user's groups comes
\* from a caller in group Admin or Manager.
C14_Grants ==
  \A rq \in GrantRequests :
    LET out == Run(Store, rq)
        gate == IF rq.op = "set_manager" THEN IsAdmin(Store, rq.user)
                ELSE IsManager(Store, rq.user)
        role == IF rq.op = "set_manager" THEN Manager ELSE DeliveryCrew
    IN /\ ~gate => out.resp = "Forbidden" /\ out.db = Store
       /\ (gate /\ rq.pk \in Users) =>
            /\ out.resp = "OK"
            /\ out.db = [Store EXCEPT !.groups[rq.pk] = groups[rq.pk] \cup {role}]
            /\ role \in groups[rq.pk] => out.db = Store
       /\ out.db.groups # groups =>
            /\ IsAdmin(Store, rq.user) \/ IsManager(Store, rq.user)
            /\ rq.pk \in Users
            /\ \A v \in Users \ {rq.pk} : out.db.groups[v] = groups[v]

\* User 3, a plain customer at first, has been granted both groups.
C14_Witness ==
  /\ resp[1] = "OK"
  /\ groups[3] = {Manager, DeliveryCrew}

C15_TotalFixed ==
  [][(pc[Converter] = "done" /\ resp[Converter] = "OrderCreated") =>
       \A o \in 1..Len(orders) : orders'[o].total = orders[o].total
    ]_vars

(* ------------------------------ C16 ----------------------------------- *)
\* C16: an order's lines and total are a snapshot: a change of a price or the
\* deletion of a menu item, as every other step, leaves the lines of every
\* stored order, their quantities and its total as they were.
C16_Snapshot ==
  [][\A o \in 1..Len(orders) : items'[o] = items[o] /\ orders'[o].total = orders[o].total
    ]_vars

====
